---- MODULE Spec2Model ----
(***************************************************************************)
(* Client-side data layer of the Chemnitz Cultural Explorer frontend:      *)
(*   - useApi            generic fetch hook          (hooks/useApi.ts)     *)
(*   - useCulturalSites  useApi + per-instance cache (hooks/useApi.ts)     *)
(*   - useSearch         debounced search hook       (hooks/useApi.ts)     *)
(*   - findParkingNearSites  nearby-parking aggregator (services/api.ts)   *)
(*   - useAuth, tokenManager, axios interceptors                           *)
(*                              (hooks/useAuth.ts, services/api.ts)        *)
(*   - useMapData, useDistrictNames                  (hooks/useApi.ts)     *)
(*   - geoUtils coordinate conversions               (services/api.ts)     *)
(*   - SearchBar         debounced autocomplete      (SearchBar.tsx)       *)
(* Each hook is a state machine of its own, with a specification of its    *)
(* own.  Each specification (SpecApi, SpecSites, SpecSearch, SpecParking,  *)
(* SpecAuth, SpecMapData, SpecGeo, SpecBar) moves that part's variables    *)
(* and leaves the others idle.                                             *)
(***************************************************************************)
EXTENDS Integers, Sequences, FiniteSets, TLC

VARIABLES
  op,                  \* name of the handler that ran last ("init" at start)
  \* ---- useApi ----
  state,               \* useState: [data, loading, error]
  abortControllerRef,  \* useRef: id of the current AbortController, 0 = null
  aborted,             \* controllers on which abort() has been called
  apiInflight,         \* requests whose producer promise has not settled
  apiStarted,          \* number of requests started so far (latest request id)
  apiOutcome,          \* request id -> how its producer promise settled
  apiUnmounted,        \* the owning component has been unmounted
  \* ---- useSearch ----
  searchResults,       \* useState: CulturalSite[]
  searchLoading,       \* useState: loading
  searchError,         \* useState: error
  debounceTimeoutRef,  \* useRef: id of the timer set last, 0 = null
  timers,              \* window timers scheduled and not yet fired or cleared
  searchInflight,      \* searchSites requests sent and not yet settled
  searchArgs,          \* arguments of the most recent call of search
  cancelled,           \* timers the handler that ran last removed by clearTimeout
  lastSent,            \* history: <<params>> of the searchSites request sent last, <<>> = none
  searchCleared,       \* history: clearSearch has run and search was not called since
  \* ---- useCulturalSites ----
  siteParams,          \* params captured by the current producer closure
  siteMounted,         \* the first render has happened
  siteFailures,        \* getCulturalSites requests that were rejected so far
  cache,               \* cacheRef: Map in insertion order, [key, value] entries
  siteInflight,        \* getCulturalSites requests sent and not yet settled
  returned,            \* the array the producer resolved with last
  \* ---- findParkingNearSites ----
  pSites,              \* argument culturalSites
  pTypes,              \* argument parkingTypes
  pStatus,             \* "idle", "awaiting" a nearby request, "resolved", "rejected"
  pIdx,                \* position in culturalSites of the site being queried
  allNearbyParking,    \* local: the tuples collected so far
  pLog,                \* per site visited so far: skipped, failed, or its response
  pResult,             \* the value the returned promise resolved with
  \* ---- useAuth, tokenManager, interceptors ----
  token,               \* localStorage auth_token: Null = no item
  tokenBefore,         \* history: what auth_token held before its last change
  storedUser,          \* localStorage auth_user: Null or the user record
  authMounted,         \* the useAuth instances that are mounted
  authState,           \* instance -> useState: [user, isAuthenticated, isLoading, error]
  authInflight,        \* requests sent through the axios instance, not yet answered
  authTimers,          \* pending 50 ms timers set by login
  signals,             \* window events dispatched by the handler that ran last
  authThrown,          \* message of the error the handler that ran last threw to
                       \* its caller, Null = it threw nothing
  \* ---- useMapData, useDistrictNames ----
  mdOptions,           \* options of the render whose fetchMapData ran last
  mdData,              \* useState: [sites, parking]
  mdLoadingState,      \* useState: LoadingState
  mdError,             \* useState: error
  mdCalls,             \* fetchMapData invocations waiting for getMapData
  dnState,             \* useDistrictNames: the useApi triple
  dnInflight,          \* useDistrictNames: producer calls not yet settled
  \* ---- geoUtils coordinate conversions ----
  geoStart,            \* form of the input: "location" (GeoJSON) or "leaflet"
  geoOrigin,           \* the input's coordinate pair as it was given
  geoLocation,         \* the location record held now, NoLocation = none
  geoLeaflet,          \* the [lat, lng] pair held now, <<>> = none
  geoSteps,            \* conversions applied so far
  \* ---- SearchBar ----
  barQuery,            \* SearchBar's useState query: text of the input
  suggestions,         \* useState: SearchSuggestion[]
  showSuggestions,     \* useState
  isLoadingSuggestions,\* useState
  barTimeoutRef,       \* SearchBar's debounceTimeoutRef: id of the timer set last, 0 = null
  barTimers,           \* window timers of the bar, scheduled and not yet fired or cleared
  barInflight,         \* autocomplete requests sent and not yet answered
  barCleared           \* history: handleClear has run and the text was not changed since

apiVars == <<state, abortControllerRef, aborted, apiInflight, apiStarted, apiOutcome,
             apiUnmounted>>

searchVars == <<searchResults, searchLoading, searchError, debounceTimeoutRef,
                timers, searchInflight, searchArgs, cancelled, lastSent, searchCleared>>

sitesVars == <<siteParams, siteMounted, siteFailures, cache, siteInflight, returned>>

parkingVars == <<pSites, pTypes, pStatus, pIdx, allNearbyParking, pLog, pResult>>

authVars == <<token, tokenBefore, storedUser, authMounted, authState, authInflight, authTimers,
              signals, authThrown>>

mapVars == <<mdOptions, mdData, mdLoadingState, mdError, mdCalls, dnState, dnInflight>>

geoVars == <<geoStart, geoOrigin, geoLocation, geoLeaflet, geoSteps>>

barVars == <<barQuery, suggestions, showSuggestions, isLoadingSuggestions, barTimeoutRef,
             barTimers, barInflight, barCleared>>

vars == <<op, apiVars, searchVars, sitesVars, parkingVars, authVars, mapVars, geoVars,
          barVars>>

\* the variables a hook's handlers leave alone: those of the other hooks
notApiVars == <<mapVars, searchVars, sitesVars, parkingVars, authVars, geoVars, barVars>>
notSearchVars == <<mapVars, apiVars, sitesVars, parkingVars, authVars, geoVars, barVars>>
notSitesVars == <<mapVars, apiVars, searchVars, parkingVars, authVars, geoVars, barVars>>
notParkingVars == <<mapVars, apiVars, searchVars, sitesVars, authVars, geoVars, barVars>>
notAuthVars == <<mapVars, apiVars, searchVars, sitesVars, parkingVars, geoVars, barVars>>
notMapVars == <<apiVars, searchVars, sitesVars, parkingVars, authVars, geoVars, barVars>>
notGeoVars == <<apiVars, searchVars, sitesVars, parkingVars, authVars, mapVars, barVars>>
notBarVars == <<apiVars, searchVars, sitesVars, parkingVars, authVars, mapVars, geoVars>>

\* JavaScript null / undefined
Null == "null"
Undefined == "undefined"

(***************************************************************************)
(* Bounds                                                                  *)
(***************************************************************************)
\* requests one useApi instance starts in a behaviour
MaxRequests == 3
\* search requests outstanding at the same time
MaxSearchInFlight == 2
\* window timers pending at the same time
MaxTimers == 2
\* getCulturalSites requests outstanding at the same time
MaxSitesInFlight == 2
\* last page of sites the component asks for
MaxSkip == 10
\* getCulturalSites requests that are rejected in a behaviour
MaxSiteFailures == 1
\* length of the site list handed to findParkingNearSites
MaxSites == 2
\* parking lots in one answer of /api/parking-lots/near
MaxLots == 1
\* requests through the axios instance outstanding at the same time
MaxAuthInFlight == 1
\* calls of one data-fetching hook outstanding at the same time
MaxHookCalls == 1
\* largest absolute value of a coordinate
MaxCoord == 2
\* conversions applied to one input
MaxGeoSteps == 2
\* autocomplete requests outstanding at the same time
MaxBarInFlight == 2

(***************************************************************************)
(* useApi                                                                  *)
(***************************************************************************)
\* values a producer can resolve with
Values == {"v1", "v2"}

\* errors a producer can reject with: a name and a (possibly empty) message
ApiErrors ==
  { [name |-> "Error",      message |-> "Network Error"],
    [name |-> "Error",      message |-> ""],
    [name |-> "AbortError", message |-> "canceled"] }

\* mutant of ErrorMessage: error.message without the fallback
ErrorMessage_Raw(e) == e.message

\* error.message || 'An error occurred'
ErrorMessage(e) == IF e.message = "" THEN "An error occurred" ELSE e.message

Pending == [kind |-> "pending"]

InitApi ==
  /\ state = [data |-> Null, loading |-> TRUE, error |-> Null]
  /\ abortControllerRef = 0
  /\ aborted = {}
  /\ apiInflight = {}
  /\ apiStarted = 0
  /\ apiOutcome = <<>>
  /\ apiUnmounted = FALSE

\* fetchData up to its await: abort the previous controller, install a new
\* one, set loading.  apiCall() takes no argument: the controller's signal is
\* not handed to the producer, so abort() does not settle or stop a request.
fetchDataStart ==
  /\ ~apiUnmounted
  /\ apiStarted < MaxRequests
  /\ aborted' = IF abortControllerRef # 0
                  THEN aborted \cup {abortControllerRef}
                  ELSE aborted
  /\ abortControllerRef' = apiStarted + 1
  /\ state' = [state EXCEPT !.loading = TRUE, !.error = Null]
  /\ apiStarted' = apiStarted + 1
  /\ apiInflight' = apiInflight \cup {apiStarted + 1}
  /\ apiOutcome' = Append(apiOutcome, Pending)
  /\ UNCHANGED apiUnmounted

\* useEffect: a dependency change runs the cleanup of the previous effect
\* (abort of the current controller) and then fetchData
EffectRun ==
  /\ fetchDataStart
  /\ op' = "effect"
  /\ UNCHANGED notApiVars

\* refetch is fetchData itself
Refetch ==
  /\ apiStarted > 0
  /\ fetchDataStart
  /\ op' = "refetch"
  /\ UNCHANGED notApiVars

\* mutant of fetchDataResolved: the result is merged into the previous state
fetchDataResolved_KeepsError(r, v) ==
  /\ r \in apiInflight
  /\ apiInflight' = apiInflight \ {r}
  /\ state' = [state EXCEPT !.data = v, !.loading = FALSE]
  /\ apiOutcome' = [apiOutcome EXCEPT ![r] = [kind |-> "ok", value |-> v]]
  /\ op' = "resolved"
  /\ UNCHANGED <<abortControllerRef, aborted, apiStarted, apiUnmounted>>
  /\ UNCHANGED notApiVars

\* the continuation after `await apiCall()` when the promise resolves
fetchDataResolved(r, v) ==
  /\ r \in apiInflight
  /\ apiInflight' = apiInflight \ {r}
  /\ state' = [data |-> v, loading |-> FALSE, error |-> Null]
  /\ apiOutcome' = [apiOutcome EXCEPT ![r] = [kind |-> "ok", value |-> v]]
  /\ op' = "resolved"
  /\ UNCHANGED <<abortControllerRef, aborted, apiStarted, apiUnmounted>>
  /\ UNCHANGED notApiVars

\* mutant of fetchDataRejected: the catch block without the AbortError test
fetchDataRejected_NoSuppress(r, e) ==
  /\ r \in apiInflight
  /\ apiInflight' = apiInflight \ {r}
  /\ state' = [data |-> Null, loading |-> FALSE, error |-> ErrorMessage(e)]
  /\ apiOutcome' = [apiOutcome EXCEPT ![r] = [kind |-> "error", error |-> e]]
  /\ op' = "rejected"
  /\ UNCHANGED <<abortControllerRef, aborted, apiStarted, apiUnmounted>>
  /\ UNCHANGED notApiVars

\* the catch block when the promise rejects
fetchDataRejected(r, e) ==
  /\ r \in apiInflight
  /\ apiInflight' = apiInflight \ {r}
  /\ state' = IF e.name # "AbortError"
                THEN [data |-> Null, loading |-> FALSE, error |-> ErrorMessage(e)]
                ELSE state
  /\ apiOutcome' = [apiOutcome EXCEPT ![r] = [kind |-> "error", error |-> e]]
  /\ op' = "rejected"
  /\ UNCHANGED <<abortControllerRef, aborted, apiStarted, apiUnmounted>>
  /\ UNCHANGED notApiVars

\* the owning component unmounts: the effect cleanup aborts the current
\* controller.  No request listens to its signal, so the requests that are
\* outstanding stay outstanding and their continuations still run.
Unmount ==
  /\ ~apiUnmounted
  /\ apiStarted > 0
  /\ apiUnmounted' = TRUE
  /\ aborted' = IF abortControllerRef # 0
                  THEN aborted \cup {abortControllerRef}
                  ELSE aborted
  /\ op' = "unmount"
  /\ UNCHANGED <<state, abortControllerRef, apiInflight, apiStarted, apiOutcome>>
  /\ UNCHANGED notApiVars

NextApi ==
  \/ EffectRun
  \/ Refetch
  \/ Unmount
  \/ \E r \in 1..MaxRequests, v \in Values : fetchDataResolved(r, v)
  \/ \E r \in 1..MaxRequests, e \in ApiErrors : fetchDataRejected(r, e)

(***************************************************************************)
(* useSearch                                                               *)
(***************************************************************************)
\* a query string is a sequence of characters
Space == " "

\* the query strings typed into the search box
Queries ==
  { <<>>, <<Space>>, <<"a">>, <<Space, Space>>, <<"a", "b">> }

\* the (category, district) arguments of search, both optional
Filters ==
  { [category |-> Undefined, district |-> Undefined],
    [category |-> "museum",  district |-> "Zentrum"] }

\* String.prototype.trim: strip leading and trailing white space
RECURSIVE TrimStart(_)
TrimStart(q) ==
  IF q # <<>> /\ Head(q) = Space THEN TrimStart(Tail(q)) ELSE q

RECURSIVE TrimEnd(_)
TrimEnd(q) ==
  IF q # <<>> /\ q[Len(q)] = Space THEN TrimEnd(SubSeq(q, 1, Len(q) - 1)) ELSE q

\* mutant of Trim: the guard tests `!query`, without trim()
Trim_Untrimmed(q) == q

Trim(q) == TrimEnd(TrimStart(q))

\* errors searchSites can reject with
SearchErrors ==
  { [name |-> "Error", message |-> "Network Error"],
    [name |-> "Error", message |-> ""] }

\* err.message || 'Search failed'
SearchErrorMessage(e) == IF e.message = "" THEN "Search failed" ELSE e.message

\* apiService.searchSites: the request parameters built from the arguments;
\* a falsy category or district is left out
searchSites(query, category, district) ==
  [search |-> query,
   category |-> IF category # Undefined /\ category # "" THEN category ELSE Undefined,
   district |-> IF district # Undefined /\ district # "" THEN district ELSE Undefined]

\* what the backend can answer to a request: no site, or the sites matching
\* the request's search text (getCulturalSites maps a malformed body to [])
Responses(params) == { <<>>, <<[id |-> "s1", matches |-> params.search]>> }

NoArgs == [query |-> <<>>, category |-> Undefined, district |-> Undefined]

InitSearch ==
  /\ searchResults = <<>>
  /\ searchLoading = FALSE
  /\ searchError = Null
  /\ debounceTimeoutRef = 0
  /\ timers = {}
  /\ searchInflight = {}
  /\ searchArgs = NoArgs
  /\ cancelled = {}
  /\ lastSent = <<>>
  /\ searchCleared = FALSE

\* mutant of clearTimeout: the pending timer is left scheduled
clearTimeout_LeavesTimer(id, ts) == ts

\* clearTimeout(id) on the set ts of pending timers
clearTimeout(id, ts) == { t \in ts : t.id # id }

\* window.setTimeout returns an id no live timer has
FreshTimerId(ts) ==
  CHOOSE i \in 1..(MaxTimers + 1) :
    /\ i # debounceTimeoutRef
    /\ \A t \in ts : t.id # i
    /\ \A j \in 1..(MaxTimers + 1) :
         (j # debounceTimeoutRef /\ \A t \in ts : t.id # j) => i <= j

FreshRequestId ==
  CHOOSE i \in 1..MaxSearchInFlight :
    /\ \A r \in searchInflight : r.id # i
    /\ \A j \in 1..MaxSearchInFlight :
         (\A r \in searchInflight : r.id # j) => i <= j

\* search(query, category, district)
search(query, category, district) ==
  LET kept == IF debounceTimeoutRef # 0
                THEN clearTimeout(debounceTimeoutRef, timers)
                ELSE timers
  IN /\ searchArgs' = [query |-> query, category |-> category, district |-> district]
     /\ cancelled' = timers \ kept
     /\ searchCleared' = FALSE
     /\ op' = "search"
     /\ IF Trim(query) = <<>>
          THEN /\ searchResults' = <<>>
               /\ timers' = kept
               /\ UNCHANGED debounceTimeoutRef
          ELSE /\ Cardinality(kept) < MaxTimers
               /\ LET id == FreshTimerId(kept)
                  IN /\ timers' = kept \cup
                          {[id |-> id, query |-> query,
                            category |-> category, district |-> district]}
                     /\ debounceTimeoutRef' = id
               /\ UNCHANGED searchResults
     /\ UNCHANGED <<searchLoading, searchError, searchInflight, lastSent>>
     /\ UNCHANGED notSearchVars

\* the debounced callback up to its await: 300 ms have passed since the timer
\* was set and it was not cleared
TimerFires ==
  \E t \in timers :
    /\ Cardinality(searchInflight) < MaxSearchInFlight
    /\ timers' = timers \ {t}
    /\ searchLoading' = TRUE
    /\ searchError' = Null
    /\ searchInflight' = searchInflight \cup
         {[id |-> FreshRequestId,
           params |-> searchSites(t.query, t.category, t.district)]}
    /\ lastSent' = <<searchSites(t.query, t.category, t.district)>>
    /\ cancelled' = {}
    /\ op' = "fire"
    /\ UNCHANGED <<searchResults, debounceTimeoutRef, searchArgs, searchCleared>>
    /\ UNCHANGED notSearchVars

\* the debounced callback after its await: try, then finally
SearchResolved ==
  \E r \in searchInflight : \E results \in Responses(r.params) :
    /\ searchInflight' = searchInflight \ {r}
    /\ searchResults' = results
    /\ searchLoading' = FALSE
    /\ cancelled' = {}
    /\ op' = "searchResolved"
    /\ UNCHANGED <<searchError, debounceTimeoutRef, timers, searchArgs, lastSent,
                   searchCleared>>
    /\ UNCHANGED notSearchVars

\* the debounced callback after its await: catch, then finally
SearchRejected ==
  \E r \in searchInflight, e \in SearchErrors :
    /\ searchInflight' = searchInflight \ {r}
    /\ searchError' = SearchErrorMessage(e)
    /\ searchResults' = <<>>
    /\ searchLoading' = FALSE
    /\ cancelled' = {}
    /\ op' = "searchRejected"
    /\ UNCHANGED <<debounceTimeoutRef, timers, searchArgs, lastSent, searchCleared>>
    /\ UNCHANGED notSearchVars

\* mutant of clearSearch: resets the state without clearing the timer
clearSearch_KeepsTimer ==
  /\ cancelled' = {}
  /\ searchResults' = <<>>
  /\ searchError' = Null
  /\ searchLoading' = FALSE
  /\ searchCleared' = TRUE
  /\ op' = "clearSearch"
  /\ UNCHANGED <<timers, debounceTimeoutRef, searchInflight, searchArgs, lastSent>>
  /\ UNCHANGED notSearchVars

clearSearch ==
  LET kept == IF debounceTimeoutRef # 0
                THEN clearTimeout(debounceTimeoutRef, timers)
                ELSE timers
  IN /\ timers' = kept
     /\ cancelled' = timers \ kept
     /\ searchResults' = <<>>
     /\ searchError' = Null
     /\ searchLoading' = FALSE
     /\ searchCleared' = TRUE
     /\ op' = "clearSearch"
     /\ UNCHANGED <<debounceTimeoutRef, searchInflight, searchArgs, lastSent>>
     /\ UNCHANGED notSearchVars

NextSearch ==
  \/ \E q \in Queries, f \in Filters : search(q, f.category, f.district)
  \/ TimerFires
  \/ SearchResolved
  \/ SearchRejected
  \/ clearSearch

(***************************************************************************)
(* useCulturalSites: the producer handed to useApi and its cache           *)
(***************************************************************************)
\* if (cacheRef.current.size > 10)
CacheCapacity == 10

\* a parameter object is its properties in insertion order, each a
\* <<name, value>> pair; params?: SearchParams can be absent (undefined)
AbsentParams == [present |-> FALSE, props |-> <<>>]

Obj(props) == [present |-> TRUE, props |-> props]

\* page k of the Chemnitz sites
Page(k) == Obj(<< <<"source", "chemnitz_geojson">>, <<"skip", ToString(k)>> >>)

\* the same first page with the properties written in the other order
PageReordered == Obj(<< <<"skip", "0">>, <<"source", "chemnitz_geojson">> >>)

\* the first page with a filter that is not set
PageUnsetFilter ==
  Obj(<< <<"source", "chemnitz_geojson">>, <<"skip", "0">>, <<"district", Undefined>> >>)

\* the parameter objects of the first render
FirstSiteParams == { AbsentParams, Page(0) }

\* the parameter objects the component passes from one render to the next:
\* the first page after no parameters, the first page written in another
\* way, or, once the page shown has settled, the next page (after the last
\* page, the first page again)
NextSiteParams(p) ==
  IF p = AbsentParams THEN { Page(0) }
  ELSE IF p \in { Page(0), PageReordered, PageUnsetFilter }
    THEN { Page(0), PageReordered, PageUnsetFilter }
           \cup (IF siteInflight = {} THEN { Page(1) } ELSE {})
  ELSE IF siteInflight = {}
    THEN (IF p = Page(MaxSkip) THEN { Page(0) } ELSE {}) \cup
         { Page(k + 1) : k \in { j \in 1..(MaxSkip - 1) : p = Page(j) } }
  ELSE {}

\* JSON.stringify(params): undefined for absent parameters; otherwise the
\* properties in insertion order, those with an undefined value left out
JSONstringify(p) ==
  [defined |-> p.present,
   text |-> SelectSeq(p.props, LAMBDA e : e[2] # Undefined)]

\* the query the backend sees: the set of defined properties
QueryOf(p) == { p.props[i] : i \in { j \in 1..Len(p.props) : p.props[j][2] # Undefined } }

\* apiService.getCulturalSites(params): the sites matching the query
getCulturalSites(p) == << [id |-> "site", query |-> QueryOf(p)] >>

\* Map.prototype.has / get / set on the insertion-ordered cache
CacheHas(c, key) == \E i \in 1..Len(c) : c[i].key = key

CacheGet(c, key) == c[CHOOSE i \in 1..Len(c) : c[i].key = key].value

CacheSet(c, key, value) ==
  IF CacheHas(c, key)
    THEN [i \in 1..Len(c) |-> IF c[i].key = key
                                THEN [key |-> key, value |-> value]
                                ELSE c[i]]
    ELSE Append(c, [key |-> key, value |-> value])

\* `if (firstKey)`: undefined is falsy, every JSON text is a non-empty string
Truthy(key) == key.defined

\* the eviction after the insert
Evict(c) ==
  IF Len(c) > CacheCapacity /\ Truthy(c[1].key) THEN Tail(c) ELSE c

InitSites ==
  /\ siteParams = AbsentParams
  /\ siteMounted = FALSE
  /\ siteFailures = 0
  /\ cache = <<>>
  /\ siteInflight = {}
  /\ returned = <<>>

FreshSiteRequestId ==
  CHOOSE i \in 1..MaxSitesInFlight :
    /\ \A r \in siteInflight : r.id # i
    /\ \A j \in 1..MaxSitesInFlight :
         (\A r \in siteInflight : r.id # j) => i <= j

\* mutant of ProducerStart: the cache is not consulted
ProducerStart_NoLookup(p) ==
  /\ Cardinality(siteInflight) < MaxSitesInFlight
  /\ siteInflight' = siteInflight \cup
       {[id |-> FreshSiteRequestId, key |-> JSONstringify(p), params |-> p]}
  /\ UNCHANGED returned

\* the producer up to its await, called with the parameters p of the render
\* that created it: a cache hit returns the cached array, a miss sends the
\* request
ProducerStart(p) ==
  LET cacheKey == JSONstringify(p)
  IN IF CacheHas(cache, cacheKey)
       THEN /\ returned' = CacheGet(cache, cacheKey)
            /\ UNCHANGED siteInflight
       ELSE /\ Cardinality(siteInflight) < MaxSitesInFlight
            /\ siteInflight' = siteInflight \cup
                 {[id |-> FreshSiteRequestId, key |-> cacheKey, params |-> p]}
            /\ UNCHANGED returned

\* first render: the effect of useApi calls the producer
SitesMount ==
  /\ ~ siteMounted
  /\ \E p \in FirstSiteParams :
       /\ siteParams' = p
       /\ ProducerStart(p)
  /\ siteMounted' = TRUE
  /\ op' = "sitesMount"
  /\ UNCHANGED <<cache, siteFailures>>
  /\ UNCHANGED notSitesVars

\* a render with other parameters: the dependency JSON.stringify(params)
\* changed, the effect of useApi calls the new producer
SitesRender ==
  /\ siteMounted
  /\ \E p \in NextSiteParams(siteParams) :
       /\ JSONstringify(p) # JSONstringify(siteParams)
       /\ siteParams' = p
       /\ ProducerStart(p)
  /\ op' = "sitesRender"
  /\ UNCHANGED <<siteMounted, siteFailures, cache>>
  /\ UNCHANGED notSitesVars

\* refetch: the same producer is called again
SitesRefetch ==
  /\ siteMounted
  /\ ProducerStart(siteParams)
  /\ op' = "sitesRefetch"
  /\ UNCHANGED <<siteParams, siteMounted, siteFailures, cache>>
  /\ UNCHANGED notSitesVars

\* the producer after its await: store the result, evict, return
SitesResolved ==
  \E r \in siteInflight :
    LET result == getCulturalSites(r.params)
    IN /\ siteInflight' = siteInflight \ {r}
       /\ cache' = Evict(CacheSet(cache, r.key, result))
       /\ returned' = result
       /\ op' = "sitesResolved"
       /\ UNCHANGED <<siteParams, siteMounted, siteFailures>>
       /\ UNCHANGED notSitesVars

\* getCulturalSites rejects: the producer throws, nothing is cached
SitesRejected ==
  \E r \in siteInflight :
    /\ siteFailures < MaxSiteFailures
    /\ siteFailures' = siteFailures + 1
    /\ siteInflight' = siteInflight \ {r}
    /\ op' = "sitesRejected"
    /\ UNCHANGED <<siteParams, siteMounted, cache, returned>>
    /\ UNCHANGED notSitesVars

NextSites ==
  \/ SitesMount
  \/ SitesRender
  \/ SitesRefetch
  \/ SitesResolved
  \/ SitesRejected

(***************************************************************************)
(* apiService.findParkingNearSites                                         *)
(***************************************************************************)
NoCoordinates == [has |-> FALSE, lng |-> 0, lat |-> 0]

Coordinates(lng, lat) == [has |-> TRUE, lng |-> lng, lat |-> lat]

\* the cultural sites a caller passes: two with a location, one without
SiteA == [id |-> "A", coordinates |-> Coordinates(0, 0)]
SiteB == [id |-> "B", coordinates |-> Coordinates(1, 0)]
SiteC == [id |-> "C", coordinates |-> NoCoordinates]

CulturalSites == {SiteA, SiteB, SiteC}

\* the parking lots the backend knows: a bus lot, a caravan lot, and a bus lot
\* that has no location
LotP == [id |-> "P", parking_type |-> "bus", coordinates |-> Coordinates(0, 1)]
LotQ == [id |-> "Q", parking_type |-> "caravan", coordinates |-> Coordinates(1, 1)]
LotR == [id |-> "R", parking_type |-> "bus", coordinates |-> NoCoordinates]

ParkingLots == {LotP, LotQ, LotR}

\* the culturalSites argument: absent, or a list (a site can be listed twice)
SiteLists ==
  { [given |-> FALSE, list |-> <<>>] } \cup
  { [given |-> TRUE, list |-> l] :
      l \in UNION { [1..n -> CulturalSites] : n \in 0..MaxSites } }

\* the parkingTypes argument: absent, empty, or an allow-list
TypeLists ==
  { [given |-> FALSE, list |-> <<>>],
    [given |-> TRUE, list |-> <<>>],
    [given |-> TRUE, list |-> <<"bus">>] }

\* the bodies /api/parking-lots/near can answer with
NearbyResponses == UNION { [1..n -> ParkingLots] : n \in 0..MaxLots }

\* site.location?.coordinates / parking.location?.coordinates is truthy
HasCoordinates(x) == x.coordinates.has

\* geoUtils.calculateDistance, in grid units: the haversine formula needs
\* real trigonometry, so the distance is taken as the squared planar distance
\* of the two points (non-negative, symmetric, 0 for the same point)
calculateDistance(lat1, lng1, lat2, lng2) ==
  (lat2 - lat1) * (lat2 - lat1) + (lng2 - lng1) * (lng2 - lng1)

\* the type filter: a lot is dropped when an allow-list is given, is not
\* empty and does not include the lot's type
PassesTypeFilter(types, lot) ==
  ~ (/\ types.given
     /\ Len(types.list) > 0
     /\ ~ \E i \in 1..Len(types.list) : types.list[i] = lot.parking_type)

\* the inner loop over one response: the tuples pushed to allNearbyParking
Candidates(site, response, types) ==
  LET kept == SelectSeq(response,
                LAMBDA lot : PassesTypeFilter(types, lot) /\ HasCoordinates(lot))
  IN [ i \in 1..Len(kept) |->
         [parking |-> kept[i],
          siteId |-> site.id,
          distance |-> calculateDistance(site.coordinates.lat, site.coordinates.lng,
                                         kept[i].coordinates.lat,
                                         kept[i].coordinates.lng) * 1000] ]

\* one iteration of the loop that fills uniqueParkingMap (a Map, kept in
\* insertion order)
AddToUniqueMap(m, item) ==
  IF \E i \in 1..Len(m) : m[i].id = item.parking.id
    THEN [ i \in 1..Len(m) |->
             IF m[i].id = item.parking.id
               THEN [m[i] EXCEPT !.nearestSites =
                       Append(@, [siteId |-> item.siteId, distance |-> item.distance])]
               ELSE m[i] ]
    ELSE Append(m, [id |-> item.parking.id,
                    parking |-> item.parking,
                    nearestSites |-> <<[siteId |-> item.siteId,
                                        distance |-> item.distance]>>])

RECURSIVE UniqueParkingMap(_, _)
UniqueParkingMap(items, m) ==
  IF items = <<>> THEN m
  ELSE UniqueParkingMap(Tail(items), AddToUniqueMap(m, Head(items)))

\* mutant of ConnectionsOf: the site that put the lot into the map gets no
\* connection
ConnectionsOf_FurtherSitesOnly(entry) ==
  [ i \in 1..(Len(entry.nearestSites) - 1) |->
      [siteId |-> entry.nearestSites[i + 1].siteId,
       parkingId |-> entry.id,
       distance |-> entry.nearestSites[i + 1].distance] ]

\* the connections of one map entry
ConnectionsOf(entry) ==
  [ i \in 1..Len(entry.nearestSites) |->
      [siteId |-> entry.nearestSites[i].siteId,
       parkingId |-> entry.id,
       distance |-> entry.nearestSites[i].distance] ]

RECURSIVE AllConnections(_)
AllConnections(m) ==
  IF m = <<>> THEN <<>> ELSE ConnectionsOf(Head(m)) \o AllConnections(Tail(m))

\* "Build final results"
BuildResult(items) ==
  LET m == UniqueParkingMap(items, <<>>)
  IN [parkingLots |-> [ i \in 1..Len(m) |-> m[i].parking ],
      connections |-> AllConnections(m)]

EmptyResult == [parkingLots |-> <<>>, connections |-> <<>>]

InitParking ==
  /\ pSites = [given |-> FALSE, list |-> <<>>]
  /\ pTypes = [given |-> FALSE, list |-> <<>>]
  /\ pStatus = "idle"
  /\ pIdx = 0
  /\ allNearbyParking = <<>>
  /\ pLog = <<>>
  /\ pResult = EmptyResult

\* mutant of NextWithCoordinates: no site is skipped
NextWithCoordinates_NoSkip(sites, i) == i

\* the first site at or after position i that has coordinates (Len + 1: none)
NextWithCoordinates(sites, i) ==
  IF \E j \in i..Len(sites) : HasCoordinates(sites[j])
    THEN CHOOSE j \in i..Len(sites) :
           /\ HasCoordinates(sites[j])
           /\ \A k \in i..(j - 1) : ~ HasCoordinates(sites[k])
    ELSE Len(sites) + 1

\* the for loop from position i on, up to the next await or to the return:
\* sites without coordinates are skipped; either the nearby request of the
\* next site is sent, or the loop ends and the result is built and returned
ContinueLoop(sites, i, items, log) ==
  LET j == NextWithCoordinates(sites, i)
      skipped == [ k \in 1..(j - i) |-> [kind |-> "skipped", lots |-> <<>>] ]
  IN /\ pLog' = log \o skipped
     /\ allNearbyParking' = items
     /\ IF j <= Len(sites)
          THEN /\ pIdx' = j
               /\ pStatus' = "awaiting"
               /\ UNCHANGED pResult
          ELSE /\ pIdx' = j
               /\ pStatus' = "resolved"
               /\ pResult' = BuildResult(items)

\* mutant of findParkingNearSites: neither the test of the site list nor the
\* outer try: iterating over an absent list throws
findParkingNearSites_NoGuard ==
  /\ pStatus = "idle"
  /\ \E sites \in SiteLists, types \in TypeLists :
       /\ pSites' = sites
       /\ pTypes' = types
       /\ IF ~ sites.given
            THEN /\ pStatus' = "rejected"
                 /\ pResult' = EmptyResult
                 /\ pIdx' = 0
                 /\ allNearbyParking' = <<>>
                 /\ pLog' = <<>>
            ELSE ContinueLoop(sites.list, 1, <<>>, <<>>)
  /\ op' = "findParkingNearSites"
  /\ UNCHANGED notParkingVars

\* findParkingNearSites(culturalSites, radiusKm, parkingTypes), up to its
\* first await or, when no request is needed, to its return
findParkingNearSites ==
  /\ pStatus = "idle"
  /\ \E sites \in SiteLists, types \in TypeLists :
       /\ pSites' = sites
       /\ pTypes' = types
       /\ IF ~ sites.given \/ Len(sites.list) = 0
            THEN /\ pStatus' = "resolved"
                 /\ pResult' = EmptyResult
                 /\ pIdx' = 0
                 /\ allNearbyParking' = <<>>
                 /\ pLog' = <<>>
            ELSE ContinueLoop(sites.list, 1, <<>>, <<>>)
  /\ op' = "findParkingNearSites"
  /\ UNCHANGED notParkingVars

\* the nearby request of site pIdx answers: filter and record its lots, go on
NearbyResolved ==
  /\ pStatus = "awaiting"
  /\ \E response \in NearbyResponses :
       ContinueLoop(pSites.list, pIdx + 1,
                    allNearbyParking \o Candidates(pSites.list[pIdx], response, pTypes),
                    Append(pLog, [kind |-> "ok", lots |-> response]))
  /\ op' = "nearbyResolved"
  /\ UNCHANGED <<pSites, pTypes>>
  /\ UNCHANGED notParkingVars

\* mutant of NearbyRejected: no inner catch, the error reaches the outer catch
NearbyRejected_OuterCatch ==
  /\ pStatus = "awaiting"
  /\ pLog' = Append(pLog, [kind |-> "failed", lots |-> <<>>])
  /\ pStatus' = "resolved"
  /\ pResult' = EmptyResult
  /\ op' = "nearbyRejected"
  /\ UNCHANGED <<pSites, pTypes, pIdx, allNearbyParking>>
  /\ UNCHANGED notParkingVars

\* the nearby request of site pIdx fails: the inner catch logs it, go on
NearbyRejected ==
  /\ pStatus = "awaiting"
  /\ ContinueLoop(pSites.list, pIdx + 1, allNearbyParking,
                  Append(pLog, [kind |-> "failed", lots |-> <<>>]))
  /\ op' = "nearbyRejected"
  /\ UNCHANGED <<pSites, pTypes>>
  /\ UNCHANGED notParkingVars

NextParking ==
  \/ findParkingNearSites
  \/ NearbyResolved
  \/ NearbyRejected

(***************************************************************************)
(* tokenManager, axios interceptors, apiService auth calls, useAuth        *)
(***************************************************************************)
\* localStorage.getItem returns null: no item under the key
NoToken == Null

\* access_token values the backend answers a login or registration with
Tokens == {"t1", "t2"}

Users == {"alice"}

\* the components that call useAuth, each with a state of its own: Layout
\* (shows user, calls logout) and the form shown by Auth (LoginForm calls
\* login and clearError, RegisterForm calls register and clearError)
AuthInstances == {"Layout", "Form"}

\* the instances whose component calls login / register / clearError
FormCallers == {"Form"}

\* the instances whose component calls logout; refreshUser, which no component
\* of the repository calls, is taken to be called where the user is shown
SessionCallers == {"Layout"}

\* the request belongs to no component (any other apiService call, or a call
\* whose component has been unmounted since)
NoInstance == "none"

\* the kinds of request sent through the axios instance
AuthKinds == {"login", "register", "logout", "me", "data"}

\* error.response.data.detail of a failed response; "" = no detail
Details == {"", "Incorrect email or password"}

\* useState initial value
InitialAuthState ==
  [user |-> Null, isAuthenticated |-> FALSE, isLoading |-> TRUE, error |-> Null]

\* the state handleLogout, initAuth (no session) and logout set
LoggedOutState ==
  [user |-> Null, isAuthenticated |-> FALSE, isLoading |-> FALSE, error |-> Null]

AuthenticatedState(u) ==
  [user |-> u, isAuthenticated |-> TRUE, isLoading |-> FALSE, error |-> Null]

SessionExpiredState ==
  [user |-> Null, isAuthenticated |-> FALSE, isLoading |-> FALSE,
   error |-> "Session expired. Please login again."]

NoAuthorization == [present |-> FALSE, scheme |-> "", token |-> NoToken]

\* `Bearer ${token}`
Bearer(t) == [present |-> TRUE, scheme |-> "Bearer", token |-> t]

getToken == token

\* mutant of RequestInterceptor: the header is never attached
RequestInterceptor_NoHeader(config) == config

\* request interceptor: reads the token when the request is sent
RequestInterceptor(config) ==
  IF getToken # NoToken
    THEN [config EXCEPT !.Authorization = Bearer(getToken)]
    ELSE config

FreshAuthRequestId ==
  CHOOSE n \in 1..MaxAuthInFlight : \A r \in authInflight : r.id # n

\* api.get / api.post: the request leaves with the headers the interceptor set
Send(kind, by) ==
  /\ Cardinality(authInflight) < MaxAuthInFlight
  /\ authInflight' = authInflight \cup
       { RequestInterceptor([id |-> FreshAuthRequestId, kind |-> kind, by |-> by,
                             Authorization |-> NoAuthorization]) }

\* setAuthState(value) of instance i; a component that is gone ignores it
SetAuthState(st, i, value) ==
  IF i \in authMounted THEN [st EXCEPT ![i] = value] ELSE st

\* window.dispatchEvent(new CustomEvent('auth:logout')): handleLogout of every
\* instance whose effect has added the listener
DispatchLogout(st) ==
  [ i \in AuthInstances |-> IF i \in authMounted THEN LoggedOutState ELSE st[i] ]

\* error.response?.data?.detail || fallback
MessageOf(detail, fallback) == IF detail # "" THEN detail ELSE fallback

InitAuth ==
  /\ token = NoToken
  /\ tokenBefore = NoToken
  /\ storedUser = Null
  /\ authMounted = {}
  /\ authState = [ i \in AuthInstances |-> InitialAuthState ]
  /\ authInflight = {}
  /\ authTimers = {}
  /\ signals = {}
  /\ authThrown = Null

\* mutant of AfterLogout: without the finally blocks, storage and state are
\* cleared only when the logout call succeeded
AfterLogout_NoFinally(same, r, ok, st) ==
  IF ok
    THEN [same EXCEPT !.token = NoToken,
                      !.storedUser = Null,
                      !.authState = SetAuthState(st, r.by, LoggedOutState),
                      !.signals = {"storage"}]
    ELSE [same EXCEPT !.signals = {"storage"}]

\* apiService.logout and useAuth.logout after the await: the catch blocks log,
\* the finally blocks remove token and user, reset the state of the calling
\* instance and dispatch a storage event, whatever the outcome ok
AfterLogout(same, r, ok, st) ==
  [same EXCEPT !.token = NoToken,
               !.storedUser = Null,
               !.authState = SetAuthState(st, r.by, LoggedOutState),
               !.signals = {"storage"}]

\* what apiService and useAuth do once the response interceptors have run and
\* left the storage (tk, su) and the instance states st: the code after the
\* await of the call that sent r
Continuation(r, ok, detail, t, u, tk, su, st) ==
  LET same == [token |-> tk, storedUser |-> su, authState |-> st,
               authTimers |-> authTimers, signals |-> {}, thrown |-> Null]
      fallback == IF r.kind = "login" THEN "Login failed" ELSE "Registration failed"
  IN
  CASE r.kind \in {"login", "register"} /\ ok ->
         [same EXCEPT !.token = t,
                      !.storedUser = u,
                      !.authState = SetAuthState(st, r.by, AuthenticatedState(u)),
                      !.authTimers =
                         IF r.kind = "login" /\ r.by \in authMounted
                           THEN authTimers \cup {[inst |-> r.by, user |-> u]}
                           ELSE authTimers]
    [] r.kind \in {"login", "register"} /\ ~ok ->
         [same EXCEPT !.authState =
            IF r.by \in authMounted
              THEN [st EXCEPT ![r.by] =
                      [@ EXCEPT !.isLoading = FALSE,
                                !.error = MessageOf(detail, fallback)]]
              ELSE st,
                      !.thrown = MessageOf(detail, fallback)]
    [] r.kind = "logout" -> AfterLogout(same, r, ok, st)
    [] r.kind = "me" /\ ok ->
         [same EXCEPT !.storedUser = u,
                      !.authState =
                         IF r.by \in authMounted
                           THEN [st EXCEPT ![r.by] = [@ EXCEPT !.user = u]]
                           ELSE st]
    [] r.kind = "me" /\ ~ok ->
         [same EXCEPT !.authState = SetAuthState(st, r.by, SessionExpiredState)]
    [] OTHER -> same

\* the response to r has been handled: r is no longer outstanding and the
\* storage, states and timers are those in n
Settled(r, n, dispatched) ==
  /\ authInflight' = authInflight \ {r}
  /\ token' = n.token
  /\ tokenBefore' = IF n.token # token THEN token ELSE tokenBefore
  /\ storedUser' = n.storedUser
  /\ authState' = n.authState
  /\ authTimers' = n.authTimers
  /\ signals' = dispatched \cup n.signals
  /\ authThrown' = n.thrown
  /\ UNCHANGED authMounted
  /\ UNCHANGED notAuthVars

\* a component calling useAuth mounts: initAuth, then the listener is added
AuthMount ==
  \E i \in AuthInstances \ authMounted :
    /\ authMounted' = authMounted \cup {i}
    /\ authState' = [authState EXCEPT ![i] =
         IF getToken # NoToken /\ storedUser # Null
           THEN AuthenticatedState(storedUser)
           ELSE LoggedOutState]
    /\ signals' = {}
    /\ authThrown' = Null
    /\ op' = "mount"
    /\ UNCHANGED <<token, tokenBefore, storedUser, authInflight, authTimers>>
    /\ UNCHANGED notAuthVars

\* the component unmounts: the listener is removed; what its calls still do
\* to the component's state is ignored from now on
AuthUnmount ==
  \E i \in authMounted :
    /\ authMounted' = authMounted \ {i}
    /\ authState' = [authState EXCEPT ![i] = InitialAuthState]
    /\ authInflight' = { IF r.by = i THEN [r EXCEPT !.by = NoInstance] ELSE r :
                         r \in authInflight }
    /\ authTimers' = { t \in authTimers : t.inst # i }
    /\ signals' = {}
    /\ authThrown' = Null
    /\ op' = "unmount"
    /\ UNCHANGED <<token, tokenBefore, storedUser>>
    /\ UNCHANGED notAuthVars

\* login(credentials) / register(userData) up to the await
login ==
  \E i \in authMounted \cap FormCallers, kind \in {"login", "register"} :
    /\ authState' = [authState EXCEPT ![i] =
                       [@ EXCEPT !.isLoading = TRUE, !.error = Null]]
    /\ Send(kind, i)
    /\ signals' = {}
    /\ authThrown' = Null
    /\ op' = kind
    /\ UNCHANGED <<token, tokenBefore, storedUser, authMounted, authTimers>>
    /\ UNCHANGED notAuthVars

\* logout() up to the await
logout ==
  \E i \in authMounted \cap SessionCallers :
    /\ authState' = [authState EXCEPT ![i] = [@ EXCEPT !.isLoading = TRUE]]
    /\ Send("logout", i)
    /\ signals' = {}
    /\ authThrown' = Null
    /\ op' = "logout"
    /\ UNCHANGED <<token, tokenBefore, storedUser, authMounted, authTimers>>
    /\ UNCHANGED notAuthVars

\* refreshUser() up to the await
refreshUser ==
  \E i \in authMounted \cap SessionCallers :
    /\ authState[i].isAuthenticated
    /\ Send("me", i)
    /\ signals' = {}
    /\ authThrown' = Null
    /\ op' = "refreshUser"
    /\ UNCHANGED <<token, tokenBefore, storedUser, authMounted, authState, authTimers>>
    /\ UNCHANGED notAuthVars

\* any other apiService call through the axios instance
DataRequest ==
  /\ Send("data", NoInstance)
  /\ signals' = {}
  /\ authThrown' = Null
  /\ op' = "request"
  /\ UNCHANGED <<token, tokenBefore, storedUser, authMounted, authState, authTimers>>
  /\ UNCHANGED notAuthVars

clearError ==
  \E i \in authMounted \cap FormCallers :
    /\ authState[i].error # Null
    /\ authState' = [authState EXCEPT ![i] = [@ EXCEPT !.error = Null]]
    /\ signals' = {}
    /\ authThrown' = Null
    /\ op' = "clearError"
    /\ UNCHANGED <<token, tokenBefore, storedUser, authMounted, authInflight, authTimers>>
    /\ UNCHANGED notAuthVars

\* a 2xx response: the response interceptor passes it on
ResponseOk ==
  \E r \in authInflight, t \in Tokens, u \in Users :
    /\ Settled(r, Continuation(r, TRUE, "", t, u, token, storedUser, authState), {})
    /\ op' = "responseOk"

\* mutant of Response401: the interceptor rejects without tearing down
Response401_NoTeardown ==
  \E r \in authInflight, detail \in Details :
    /\ Settled(r, Continuation(r, FALSE, detail, Null, Null, token, storedUser,
                               authState), {})
    /\ op' = "response401"

\* a response with status 401: the response interceptor removes token and
\* user, dispatches auth:logout and rejects
Response401 ==
  \E r \in authInflight, detail \in Details :
    /\ Settled(r, Continuation(r, FALSE, detail, Null, Null, NoToken, Null,
                               DispatchLogout(authState)), {"auth:logout"})
    /\ op' = "response401"

\* any other failure (another status, no response): the interceptor rejects
ResponseError ==
  \E r \in authInflight, detail \in Details :
    /\ Settled(r, Continuation(r, FALSE, detail, Null, Null, token, storedUser,
                               authState), {})
    /\ op' = "responseError"

\* the 50 ms timer of login fires
AuthTimerFires ==
  \E t \in authTimers :
    /\ authTimers' = authTimers \ {t}
    /\ authState' = [authState EXCEPT ![t.inst] =
                       [@ EXCEPT !.isAuthenticated = TRUE, !.user = t.user]]
    /\ signals' = {}
    /\ authThrown' = Null
    /\ op' = "timer"
    /\ UNCHANGED <<token, tokenBefore, storedUser, authMounted, authInflight>>
    /\ UNCHANGED notAuthVars

NextAuth ==
  \/ AuthMount
  \/ AuthUnmount
  \/ login
  \/ logout
  \/ refreshUser
  \/ DataRequest
  \/ clearError
  \/ ResponseOk
  \/ Response401
  \/ ResponseError
  \/ AuthTimerFires

(***************************************************************************)
(* useMapData with apiService.getMapData, and useDistrictNames with        *)
(* apiService.getDistrictNames                                             *)
(***************************************************************************)
\* options.source and options.includeParking of a render
MapSources == {Undefined, "chemnitz_geojson", "sachsen_geojson"}

MapOptions == [source : MapSources, includeParking : BOOLEAN]

\* response.data of GET /api/cultural-sites: an object with the sites (and
\* parking lots when asked for), or an object without a sites property
EnhancedResponses ==
  { [hasSites |-> TRUE, sites |-> << "s1" >>, parking_lots |-> <<>>],
    [hasSites |-> TRUE, sites |-> << "s1" >>, parking_lots |-> << "p1" >>],
    [hasSites |-> FALSE, sites |-> <<>>, parking_lots |-> <<>>] }

\* response.data of GET /api/districts/names: {districts: [...]} or something
\* else
NamesResponses ==
  { [hasDistricts |-> TRUE, districts |-> << "Zentrum" >>],
    [hasDistricts |-> FALSE, districts |-> <<>>] }

EmptyMapData == [hasSites |-> TRUE, sites |-> <<>>, parking |-> <<>>]

\* apiService.getMapData after a successful getCulturalSitesEnhanced
getMapDataOk(response) ==
  [hasSites |-> response.hasSites, sites |-> response.sites,
   parking |-> response.parking_lots]

\* apiService.getMapData when getCulturalSitesEnhanced rejects: the catch
\* block logs and returns empty arrays
getMapDataFailed == EmptyMapData

\* apiService.getDistrictNames after a successful request
getDistrictNamesOk(response) ==
  IF response.hasDistricts THEN response.districts ELSE <<>>

\* apiService.getDistrictNames when the request rejects: the catch block logs
\* and returns []
getDistrictNamesFailed == <<>>

\* the sources fetchMapData asks getMapData for, in the order of Promise.all
SourcesFetched(options) ==
  IF options.source = "sachsen_geojson"
    THEN << "sachsen_geojson", "chemnitz_geojson" >>
    ELSE << options.source >>

AllLoaded == [sites |-> FALSE, parking |-> FALSE, districts |-> FALSE, search |-> FALSE]

InitMapData ==
  /\ mdOptions = [source |-> Undefined, includeParking |-> FALSE]
  /\ mdData = [sites |-> <<>>, parking |-> <<>>]
  /\ mdLoadingState = [sites |-> TRUE, parking |-> FALSE, districts |-> FALSE,
                       search |-> FALSE]
  /\ mdError = Null
  /\ mdCalls = {}
  /\ dnState = [data |-> Null, loading |-> TRUE, error |-> Null]
  /\ dnInflight = 0

FreshMapCallId ==
  CHOOSE n \in 1..MaxHookCalls : \A c \in mdCalls : c.id # n

\* fetchMapData up to its await (the effect after a render with options o, or
\* refetch): set the loading flags, clear the error, call getMapData once per
\* source
fetchMapData ==
  \E o \in MapOptions :
    /\ Cardinality(mdCalls) < MaxHookCalls
    /\ mdOptions' = o
    /\ mdLoadingState' = [sites |-> TRUE, parking |-> o.includeParking,
                          districts |-> FALSE, search |-> FALSE]
    /\ mdError' = Null
    /\ mdCalls' = mdCalls \cup
         {[id |-> FreshMapCallId, order |-> SourcesFetched(o),
           results |-> <<>>, failed |-> FALSE]}
    /\ op' = "fetchMapData"
    /\ UNCHANGED <<mdData, dnState, dnInflight>>
    /\ UNCHANGED notMapVars

RECURSIVE Concat(_, _)
\* [...a.sites, ...b.sites] over the results of Promise.all
Concat(results, field) ==
  IF results = <<>> THEN <<>>
  ELSE Head(results)[field] \o Concat(Tail(results), field)

\* one getMapData promise of call c settles with result; when it is the last
\* one, fetchMapData goes on after its await: a result without sites makes
\* it throw a TypeError, which the catch block turns into the error string;
\* otherwise the data are stored; finally the loading flags are cleared
MapResultArrives(c, result, backendFailed) ==
  LET results == Append(c.results, result)
      failed == c.failed \/ backendFailed
  IN IF Len(results) < Len(c.order)
       THEN /\ mdCalls' = (mdCalls \ {c}) \cup
                 {[c EXCEPT !.results = results, !.failed = failed]}
            /\ UNCHANGED <<mdData, mdLoadingState, mdError>>
       ELSE /\ mdCalls' = mdCalls \ {c}
            /\ IF \E i \in 1..Len(results) : ~results[i].hasSites
                 THEN /\ mdError' = "sites is not iterable"
                      /\ UNCHANGED mdData
                 ELSE /\ mdData' = [sites |-> Concat(results, "sites"),
                                    parking |-> Concat(results, "parking")]
                      /\ UNCHANGED mdError
            /\ mdLoadingState' = AllLoaded

\* GET /api/cultural-sites of a getMapData call answers
MapBackendOk ==
  \E c \in mdCalls, response \in EnhancedResponses :
    /\ MapResultArrives(c, getMapDataOk(response), FALSE)
    /\ op' = "mapBackendOk"
    /\ UNCHANGED <<mdOptions, dnState, dnInflight>>
    /\ UNCHANGED notMapVars

\* GET /api/cultural-sites of a getMapData call fails
MapBackendFailed ==
  \E c \in mdCalls :
    /\ MapResultArrives(c, getMapDataFailed, TRUE)
    /\ op' = "mapBackendFailed"
    /\ UNCHANGED <<mdOptions, dnState, dnInflight>>
    /\ UNCHANGED notMapVars

\* useDistrictNames: fetchData of useApi up to its await (mount or refetch)
fetchDistrictNames ==
  /\ dnInflight < MaxHookCalls
  /\ dnInflight' = dnInflight + 1
  /\ dnState' = [dnState EXCEPT !.loading = TRUE, !.error = Null]
  /\ op' = "fetchDistrictNames"
  /\ UNCHANGED <<mdOptions, mdData, mdLoadingState, mdError, mdCalls>>
  /\ UNCHANGED notMapVars

\* the producer of useDistrictNames resolved with names
NamesResolved(names) ==
  /\ dnInflight > 0
  /\ dnInflight' = dnInflight - 1
  /\ dnState' = [data |-> names, loading |-> FALSE, error |-> Null]
  /\ UNCHANGED <<mdOptions, mdData, mdLoadingState, mdError, mdCalls>>
  /\ UNCHANGED notMapVars

\* GET /api/districts/names answers
NamesBackendOk ==
  \E response \in NamesResponses :
    /\ NamesResolved(getDistrictNamesOk(response))
    /\ op' = "namesBackendOk"

\* GET /api/districts/names fails
NamesBackendFailed ==
  /\ NamesResolved(getDistrictNamesFailed)
  /\ op' = "namesBackendFailed"

NextMapData ==
  \/ fetchMapData
  \/ MapBackendOk
  \/ MapBackendFailed
  \/ fetchDistrictNames
  \/ NamesBackendOk
  \/ NamesBackendFailed

(***************************************************************************)
(* geoUtils.mongoLocationToLeaflet / leafletToMongoLocation (services/api.ts) *)
(***************************************************************************)
\* coordinate values; the functions only move them, so integers stand for
\* the numbers
Coords == (0 - MaxCoord)..MaxCoord

CoordPairs == Coords \X Coords

NoLocation == [type |-> "none", coordinates |-> <<>>]

\* [location.coordinates[1], location.coordinates[0]] (indices from 0)
mongoLocationToLeaflet(location) ==
  <<location.coordinates[2], location.coordinates[1]>>

\* mutant of leafletToMongoLocation: the coordinates are not swapped
leafletToMongoLocation_NoSwap(lat, lng) ==
  [type |-> "Point", coordinates |-> <<lat, lng>>]

\* {type: 'Point', coordinates: [lng, lat]}
leafletToMongoLocation(lat, lng) ==
  [type |-> "Point", coordinates |-> <<lng, lat>>]

\* no conversion asked for
NoGeo ==
  /\ geoStart = "none"
  /\ geoOrigin = <<>>
  /\ geoLocation = NoLocation
  /\ geoLeaflet = <<>>
  /\ geoSteps = 0

\* the input: a GeoJSON location with its (lng, lat) pair, or a (lat, lng) pair
InitGeo ==
  \E p \in CoordPairs :
    /\ geoOrigin = p
    /\ geoSteps = 0
    /\ \/ /\ geoStart = "location"
          /\ geoLocation = [type |-> "Point", coordinates |-> p]
          /\ geoLeaflet = <<>>
       \/ /\ geoStart = "leaflet"
          /\ geoLocation = NoLocation
          /\ geoLeaflet = p

\* const [lat, lng] = geoUtils.mongoLocationToLeaflet(location)
ToLeaflet ==
  /\ geoLocation # NoLocation
  /\ geoSteps < MaxGeoSteps
  /\ geoLeaflet' = mongoLocationToLeaflet(geoLocation)
  /\ geoLocation' = NoLocation
  /\ geoSteps' = geoSteps + 1
  /\ op' = "mongoLocationToLeaflet"
  /\ UNCHANGED <<geoStart, geoOrigin>>
  /\ UNCHANGED notGeoVars

\* geoUtils.leafletToMongoLocation(lat, lng) on the pair held
ToMongo ==
  /\ geoLeaflet # <<>>
  /\ geoSteps < MaxGeoSteps
  /\ geoLocation' = leafletToMongoLocation(geoLeaflet[1], geoLeaflet[2])
  /\ geoLeaflet' = <<>>
  /\ geoSteps' = geoSteps + 1
  /\ op' = "leafletToMongoLocation"
  /\ UNCHANGED <<geoStart, geoOrigin>>
  /\ UNCHANGED notGeoVars

NextGeo ==
  \/ ToLeaflet
  \/ ToMongo

(***************************************************************************)
(* SearchBar: debounced autocomplete (components/Search/SearchBar.tsx,     *)
(* with apiService.autocompleteSearch).  Keyboard navigation in the list   *)
(* and the isSearching / currentQuery props are left out.                  *)
(***************************************************************************)
\* what the user can make the input hold
InputValues == { <<>>, <<"a">>, <<"a", "b">>, <<"a", "b", Space>> }

\* what /api/search/autocomplete can answer for q: nothing, or one suggestion
SuggestionsFor(q) == { <<>>, <<[id |-> "s1", name |-> q]>> }

InitBar ==
  /\ barQuery = <<>>
  /\ suggestions = <<>>
  /\ showSuggestions = FALSE
  /\ isLoadingSuggestions = FALSE
  /\ barTimeoutRef = 0
  /\ barTimers = {}
  /\ barInflight = {}
  /\ barCleared = FALSE

\* window.setTimeout returns an id no live timer has; the ref still holds the
\* id of the timer set last
FreshBarTimerId ==
  CHOOSE n \in 1..(Cardinality(barTimers) + 2) :
    n # barTimeoutRef /\ \A t \in barTimers : t.id # n

FreshBarRequestId ==
  CHOOSE n \in 1..(Cardinality(barInflight) + 1) : \A r \in barInflight : r.id # n

\* clearTimeout(id) on the bar's timers
BarClearTimeout(id) == { t \in barTimers : t.id # id }

\* onChange of the input
handleInputChange ==
  \E value \in InputValues :
    LET live == IF barTimeoutRef # 0 THEN BarClearTimeout(barTimeoutRef) ELSE barTimers
    IN
    /\ barQuery' = value
    /\ barCleared' = FALSE
    /\ IF Len(Trim(value)) >= 2
         THEN /\ barTimers' = live \cup {[id |-> FreshBarTimerId, value |-> Trim(value)]}
              /\ barTimeoutRef' = FreshBarTimerId
              /\ UNCHANGED <<suggestions, showSuggestions>>
         ELSE \* empty (onClearSearch is called too) or one character
              /\ barTimers' = live
              /\ suggestions' = <<>>
              /\ showSuggestions' = FALSE
              /\ UNCHANGED barTimeoutRef
    /\ op' = "handleInputChange"
    /\ UNCHANGED <<isLoadingSuggestions, barInflight>>
    /\ UNCHANGED notBarVars

\* onClick of the clear button, which is rendered while query is not empty
handleClear ==
  /\ barQuery # <<>>
  /\ barQuery' = <<>>
  /\ suggestions' = <<>>
  /\ showSuggestions' = FALSE
  /\ barCleared' = TRUE
  /\ op' = "handleClear"
  /\ UNCHANGED <<isLoadingSuggestions, barTimeoutRef, barTimers, barInflight>>
  /\ UNCHANGED notBarVars

\* a 300 ms timer fires: fetchSuggestions(value) up to the await
BarTimerFires ==
  \E t \in barTimers :
    /\ barTimers' = barTimers \ {t}
    /\ IF Len(t.value) < 2
         THEN /\ suggestions' = <<>>
              /\ showSuggestions' = FALSE
              /\ UNCHANGED <<isLoadingSuggestions, barInflight>>
         ELSE /\ Cardinality(barInflight) < MaxBarInFlight
              /\ isLoadingSuggestions' = TRUE
              /\ barInflight' = barInflight \cup {[id |-> FreshBarRequestId, q |-> t.value]}
              /\ UNCHANGED <<suggestions, showSuggestions>>
    /\ op' = "fetchSuggestions"
    /\ UNCHANGED <<barQuery, barTimeoutRef, barCleared>>
    /\ UNCHANGED notBarVars

\* fetchSuggestions after the await, response.suggestions = list
SuggestionsArrive(r, list) ==
  /\ barInflight' = barInflight \ {r}
  /\ suggestions' = list
  /\ showSuggestions' = (Len(list) > 0)
  /\ isLoadingSuggestions' = FALSE
  /\ UNCHANGED <<barQuery, barTimeoutRef, barTimers, barCleared>>
  /\ UNCHANGED notBarVars

\* the backend answers an autocomplete request
AutocompleteOk ==
  \E r \in barInflight :
    \E list \in SuggestionsFor(r.q) :
      /\ SuggestionsArrive(r, list)
      /\ op' = "autocompleteOk"

\* the request fails: autocompleteSearch catches and returns no suggestions
AutocompleteFailed ==
  \E r \in barInflight :
    /\ SuggestionsArrive(r, <<>>)
    /\ op' = "autocompleteFailed"

\* onClick of a suggestion in the list
handleSuggestionClick ==
  \E i \in 1..Len(suggestions) :
    /\ showSuggestions
    /\ barQuery' = suggestions[i].name
    /\ showSuggestions' = FALSE
    /\ barCleared' = FALSE
    /\ op' = "handleSuggestionClick"
    /\ UNCHANGED <<suggestions, isLoadingSuggestions, barTimeoutRef, barTimers,
                   barInflight>>
    /\ UNCHANGED notBarVars

NextBar ==
  \/ handleInputChange
  \/ handleClear
  \/ BarTimerFires
  \/ AutocompleteOk
  \/ AutocompleteFailed
  \/ handleSuggestionClick

(***************************************************************************)
(* Specifications: one per hook or service function                        *)
(***************************************************************************)
InitSpecApi ==
  /\ op = "init" /\ InitApi /\ InitSearch /\ InitSites /\ InitParking
  /\ InitAuth /\ InitMapData /\ NoGeo /\ InitBar

SpecApi == InitSpecApi /\ [][NextApi]_vars

InitSpecSearch ==
  /\ op = "init" /\ InitSearch /\ InitApi /\ InitSites /\ InitParking
  /\ InitAuth /\ InitMapData /\ NoGeo /\ InitBar

SpecSearch == InitSpecSearch /\ [][NextSearch]_vars

InitSpecSites ==
  /\ op = "init" /\ InitSites /\ InitApi /\ InitSearch /\ InitParking
  /\ InitAuth /\ InitMapData /\ NoGeo /\ InitBar

SpecSites == InitSpecSites /\ [][NextSites]_vars

InitSpecParking ==
  /\ op = "init" /\ InitParking /\ InitApi /\ InitSearch /\ InitSites
  /\ InitAuth /\ InitMapData /\ NoGeo /\ InitBar

SpecParking == InitSpecParking /\ [][NextParking]_vars

InitSpecAuth ==
  /\ op = "init" /\ InitAuth /\ InitApi /\ InitSearch /\ InitSites /\ InitParking
  /\ InitMapData /\ NoGeo /\ InitBar

SpecAuth == InitSpecAuth /\ [][NextAuth]_vars

InitSpecMapData ==
  /\ op = "init" /\ InitMapData /\ InitApi /\ InitSearch /\ InitSites
  /\ InitParking /\ InitAuth /\ NoGeo /\ InitBar

SpecMapData == InitSpecMapData /\ [][NextMapData]_vars

InitSpecGeo ==
  /\ op = "init" /\ InitApi /\ InitSearch /\ InitSites /\ InitParking
  /\ InitAuth /\ InitMapData /\ InitGeo /\ InitBar

SpecGeo == InitSpecGeo /\ [][NextGeo]_vars

InitSpecBar ==
  /\ op = "init" /\ InitApi /\ InitSearch /\ InitSites /\ InitParking
  /\ InitAuth /\ InitMapData /\ NoGeo /\ InitBar

SpecBar == InitSpecBar /\ [][NextBar]_vars

(***************************************************************************)
(* Claims about useApi (SpecApi)                                           *)
(***************************************************************************)

\* what the exposed state is when the outcome o is the last one applied
ExposedAfter(o) ==
  IF o.kind = "ok"
    THEN [data |-> o.value, loading |-> FALSE, error |-> Null]
    ELSE [data |-> Null, loading |-> FALSE, error |-> ErrorMessage(o.error)]

\* C1: only the most recently initiated request may change the exposed
\* {data, loading, error}: once the latest request has resolved, or rejected
\* with a real error, the exposed state holds its result, also while or after
\* earlier requests settle.
C1_LatestRequestWins ==
  (/\ apiStarted > 0
   /\ apiOutcome[apiStarted].kind # "pending"
   /\ ~ (apiOutcome[apiStarted].kind = "error"
         /\ apiOutcome[apiStarted].error.name = "AbortError"))
  => state = ExposedAfter(apiOutcome[apiStarted])

\* C13: once the owning component is unmounted, a request that was outstanding
\* at unmount does not change the hook's state when it resolves or rejects.
C13_NoUpdateAfterUnmount ==
  [][ apiUnmounted => state' = state ]_vars

\* the outcome of the request that settles in this step is a rejection by
\* cancellation
IsCancellation(o) == o.kind = "error" /\ o.error.name = "AbortError"

\* C14: with a single request in flight, starting a request (dependency change
\* or refetch alike) sets loading = true and error = null; when it resolves
\* with v the state is {data: v, loading: false, error: null}; when it rejects
\* with an error that is not a cancellation the state is {data: null,
\* loading: false, error: m} with m a non-empty message.
C14_RequestLifecycle ==
  [][ /\ apiStarted' = apiStarted + 1 =>
           /\ op' \in {"effect", "refetch"}
           /\ state' = [data |-> state.data, loading |-> TRUE, error |-> Null]
      /\ \A r \in apiInflight \ apiInflight' :
           apiInflight = {r} =>
             /\ apiOutcome'[r].kind = "ok" =>
                  state' = [data |-> apiOutcome'[r].value, loading |-> FALSE,
                            error |-> Null]
             /\ (apiOutcome'[r].kind = "error" /\ ~IsCancellation(apiOutcome'[r])) =>
                  /\ state'.data = Null
                  /\ state'.loading = FALSE
                  /\ state'.error \notin {Null, ""}
                  /\ apiOutcome'[r].error.message # "" =>
                       state'.error = apiOutcome'[r].error.message ]_vars

\* the only request rejected with an error that has no message
C14_Witness ==
  /\ op = "rejected"
  /\ apiStarted = 1
  /\ apiInflight = {}
  /\ apiOutcome[1].kind = "error"
  /\ apiOutcome[1].error.message = ""
  /\ state = [data |-> Null, loading |-> FALSE, error |-> "An error occurred"]

\* C15: a rejection by cancellation (an error named AbortError) stores no
\* error message and does not clear data: data and error are what they were
\* before the failure.
C15_CancellationSuppressed ==
  [][ \A r \in apiInflight \ apiInflight' :
        IsCancellation(apiOutcome'[r]) =>
          /\ state'.data = state.data
          /\ state'.error = state.error ]_vars

\* a second request was cancelled after the first had delivered data: the
\* data is still exposed
C15_Witness ==
  /\ op = "rejected"
  /\ apiStarted = 2
  /\ apiInflight = {}
  /\ apiOutcome[1].kind = "ok"
  /\ IsCancellation(apiOutcome[2])
  /\ state.data = apiOutcome[1].value
  /\ state.error = Null


\* C25: data and error of a useApi instance are never both non-null
C25_DataXorError == ~(state.data # Null /\ state.error # Null)

\* a request has just been rejected after an earlier one had delivered data:
\* the error is set and the data is gone
C25_Witness ==
  /\ op = "rejected"
  /\ state.error # Null
  /\ state.data = Null
  /\ \E r \in 1..apiStarted : apiOutcome[r].kind = "ok"

\* C26: once every request the instance has started has settled, resolved or
\* rejected with any error, loading is false
C26_SettledMeansNotLoading ==
  (apiStarted > 0 /\ apiInflight = {}) => state.loading = FALSE

(***************************************************************************)
(* Claims about useCulturalSites (SpecSites)                               *)
(***************************************************************************)
\* the parameter object p has the same properties and values as the object
\* whose serialized form is the cache key, in whatever order they were written
StructurallyIdentical(p, key) ==
  /\ key.defined = p.present
  /\ { key.text[i] : i \in 1..Len(key.text) } = QueryOf(p)

\* C2: a fetch whose parameter object is structurally identical to that of an
\* earlier, cached fetch is served from the cache: it sends no request to
\* getCulturalSites.
C2_IdenticalParamsHitCache ==
  [][ (/\ op' \in {"sitesMount", "sitesRender", "sitesRefetch"}
       /\ \E i \in 1..Len(cache) : StructurallyIdentical(siteParams', cache[i].key))
      => siteInflight' = siteInflight ]_vars

\* C3: the cache never holds more than 10 entries, whatever the parameters,
\* absent parameters included.
C3_CacheAtMostTen == Len(cache) <= CacheCapacity

\* C16: whenever the serialized parameters of a fetch are already a key of the
\* cache, the fetch returns the cached array and sends no request.
C16_CacheHitNoRequest ==
  [][ op' \in {"sitesMount", "sitesRender", "sitesRefetch"} =>
        \A i \in 1..Len(cache) :
          cache[i].key = JSONstringify(siteParams') =>
            /\ siteInflight' = siteInflight
            /\ returned' = cache[i].value ]_vars

\* a page that was fetched before is shown again: nothing is outstanding and
\* the array returned is the cached one
C16_Witness ==
  /\ op = "sitesRender"
  /\ siteInflight = {}
  /\ Len(cache) >= 2
  /\ \E i \in 1..Len(cache) :
       /\ cache[i].key = JSONstringify(siteParams)
       /\ returned = cache[i].value
       /\ returned # <<>>

(***************************************************************************)
(* Claims about useSearch (SpecSearch)                                     *)
(***************************************************************************)
\* the arguments a pending timer or the last call of search carries
ArgsOf(x) == [query |-> x.query, category |-> x.category, district |-> x.district]

\* a query that is empty or consists of white space only
IsBlank(q) == \A i \in 1..Len(q) : q[i] = Space

\* C4 as stated: after search is called with a query of at least 2 characters
\* exactly one debounced invocation is pending, with that call's arguments
C4_AsStated ==
  (op = "search" /\ Len(searchArgs.query) >= 2)
    => (Cardinality(timers) = 1 /\ \A t \in timers : ArgsOf(t) = searchArgs)

\* C4 (amended): after search is called with a query of at least 2 characters
\* that are not all white space, exactly one debounced invocation is pending,
\* whatever was pending before, and it carries that call's query and filters;
\* when it fires it is removed and exactly one request is sent, with the
\* query and filters of that last call.
C4_DebounceReplaces ==
  /\ [] ((op = "search" /\ Len(searchArgs.query) >= 2 /\ ~ IsBlank(searchArgs.query))
           => (Cardinality(timers) = 1 /\ \A t \in timers : ArgsOf(t) = searchArgs))
  /\ [][ op' = "fire" =>
            /\ Cardinality(timers) = 1
            /\ timers' = {}
            /\ \E r \in searchInflight' :
                 /\ searchInflight' = searchInflight \cup {r}
                 /\ r \notin searchInflight
                 /\ r.params = searchSites(searchArgs.query, searchArgs.category,
                                           searchArgs.district) ]_vars

\* a call of search with a query of at least 2 characters replaced a pending
\* invocation
C4_Witness ==
  /\ op = "search"
  /\ Len(searchArgs.query) >= 2
  /\ ~ IsBlank(searchArgs.query)
  /\ cancelled # {}
  /\ \E t \in cancelled : ArgsOf(t) # searchArgs

C6_ResultsXorError == ~ (searchResults # <<>> /\ searchError # Null)

\* C7: while at least one search request is outstanding the loading flag is
\* true.
C7_LoadingWhileOutstanding == searchInflight # {} => searchLoading

\* C8: clearSearch cancels the pending debounced invocation (no timer is
\* left to fire, so the query it carried is never sent) and leaves
\* searchResults = [], error = null, loading = false.
C8_ClearSearchCancels ==
  [][ op' = "clearSearch" =>
        /\ timers' = {}
        /\ searchInflight' = searchInflight
        /\ searchResults' = <<>>
        /\ searchError' = Null
        /\ searchLoading' = FALSE ]_vars

\* clearSearch ran while a debounced invocation was pending
C8_Witness ==
  /\ op = "clearSearch"
  /\ cancelled # {}
  /\ timers = {}

\* C27: once every search request that was sent has settled, searchResults is
\* a response to the request sent last (the empty list after a failure or a
\* clear, which every request can be answered with, included)
C27_LatestQueryWins ==
  (searchInflight = {} /\ lastSent # <<>>) => searchResults \in Responses(lastSent[1])

\* C28: after clearSearch and until search is called again, searchResults is
\* empty, error is null and loading is false
C28_ClearedStaysCleared ==
  searchCleared =>
    /\ searchResults = <<>>
    /\ searchError = Null
    /\ searchLoading = FALSE

(***************************************************************************)
(* Claims about findParkingNearSites (SpecParking)                         *)
(***************************************************************************)
SiteIds == { site.id : site \in CulturalSites }

LotIds == { lot.id : lot \in ParkingLots }

\* entry j of the response to the query of site i was recorded: the query
\* succeeded, the lot passes the type filter and has coordinates
Found(i, j) ==
  /\ i \in 1..Len(pLog)
  /\ pLog[i].kind = "ok"
  /\ j \in 1..Len(pLog[i].lots)
  /\ PassesTypeFilter(pTypes, pLog[i].lots[j])
  /\ HasCoordinates(pLog[i].lots[j])

\* the places (site position, response position) where lot l was found near
\* a site with id s
Occurrences(s, l) ==
  { ij \in (1..Len(pLog)) \X (1..MaxLots) :
      /\ Found(ij[1], ij[2])
      /\ pSites.list[ij[1]].id = s
      /\ pLog[ij[1]].lots[ij[2]].id = l }

\* the connection records of the result for site s and lot l
ConnectionCount(s, l) ==
  Cardinality({ c \in 1..Len(pResult.connections) :
                  /\ pResult.connections[c].siteId = s
                  /\ pResult.connections[c].parkingId = l })

DistinctLotIds ==
  \A a, b \in 1..Len(pResult.parkingLots) :
    a # b => pResult.parkingLots[a].id # pResult.parkingLots[b].id

\* C9: for any site list and any responses, no lot id is repeated in
\* parkingLots and connections holds exactly one record per (site, lot) pair
\* for which the lot was found near the site.
C9_OneConnectionPerPair ==
  pStatus = "resolved" =>
    /\ DistinctLotIds
    /\ \A s \in SiteIds, l \in LotIds :
         ConnectionCount(s, l) = IF Occurrences(s, l) # {} THEN 1 ELSE 0

\* the tuples the successful queries contribute
ExpectedConnections ==
  { [siteId |-> pSites.list[ij[1]].id,
     parkingId |-> pLog[ij[1]].lots[ij[2]].id,
     distance |-> 1000 * calculateDistance(
                    pSites.list[ij[1]].coordinates.lat,
                    pSites.list[ij[1]].coordinates.lng,
                    pLog[ij[1]].lots[ij[2]].coordinates.lat,
                    pLog[ij[1]].lots[ij[2]].coordinates.lng)] :
      ij \in { x \in (1..Len(pLog)) \X (1..MaxLots) : Found(x[1], x[2]) } }

ExpectedLots ==
  { pLog[ij[1]].lots[ij[2]] :
      ij \in { x \in (1..Len(pLog)) \X (1..MaxLots) : Found(x[1], x[2]) } }

\* C10: the returned promise never rejects; when it resolves the result holds
\* exactly the lots and connections of the sites whose query succeeded,
\* whatever queries failed, and it is empty when no query succeeded.
C10_FailuresAreSkipped ==
  /\ pStatus # "rejected"
  /\ pStatus = "resolved" =>
       /\ { pResult.parkingLots[a] : a \in 1..Len(pResult.parkingLots) }
            = ExpectedLots
       /\ { pResult.connections[c] : c \in 1..Len(pResult.connections) }
            = ExpectedConnections
       /\ (\A i \in 1..Len(pLog) : pLog[i].kind # "ok") => pResult = EmptyResult

\* the query of one site failed, the query of a later site succeeded and its
\* lot is in the result
C10_Witness ==
  /\ pStatus = "resolved"
  /\ \E i, j \in 1..Len(pLog) :
       /\ i < j
       /\ pLog[i].kind = "failed"
       /\ pLog[j].kind = "ok"
       /\ \E n \in 1..MaxLots : Found(j, n)
  /\ pResult.parkingLots # <<>>
  /\ pResult.connections # <<>>

\* the nearby queries sent so far: one per site whose query has been answered
\* or has failed, and the one that is awaited
QueriesSent ==
  Cardinality({ i \in 1..Len(pLog) : pLog[i].kind \in {"ok", "failed"} })
    + (IF pStatus = "awaiting" THEN 1 ELSE 0)

\* C18: called with an empty or absent site list, findParkingNearSites
\* resolves to {parkingLots: [], connections: []} and sends no request.
C18_EmptyListShortCircuits ==
  (pStatus # "idle" /\ (~pSites.given \/ pSites.list = <<>>)) =>
    /\ pStatus = "resolved"
    /\ pResult = [parkingLots |-> <<>>, connections |-> <<>>]
    /\ QueriesSent = 0

\* findParkingNearSites([]) has returned
C18_Witness ==
  /\ op = "findParkingNearSites"
  /\ pSites = [given |-> TRUE, list |-> <<>>]
  /\ pStatus = "resolved"
  /\ pResult = [parkingLots |-> <<>>, connections |-> <<>>]
  /\ pLog = <<>>

\* the parking type of the lot with id l
TypeOfLot(l) == (CHOOSE lot \in ParkingLots : lot.id = l).parking_type

\* C19: whenever a type allow-list is supplied, every lot in parkingLots and
\* every parkingId in connections has a parking type that is in the list.
C19_OnlyAllowedTypes ==
  (pStatus = "resolved" /\ pTypes.given) =>
    LET allowed == { pTypes.list[i] : i \in 1..Len(pTypes.list) }
    IN /\ \A a \in 1..Len(pResult.parkingLots) :
            pResult.parkingLots[a].parking_type \in allowed
       /\ \A c \in 1..Len(pResult.connections) :
            TypeOfLot(pResult.connections[c].parkingId) \in allowed

\* C20: exactly one nearby query is sent for each input site that has
\* coordinates and none for a site that has none; a site without coordinates
\* raises no error and has no connection record.
C20_OneQueryPerLocatedSite ==
  /\ pStatus # "rejected"
  /\ \A i \in 1..Len(pLog) :
       pLog[i].kind \in {"ok", "failed"} <=> pSites.list[i].coordinates.has
  /\ pStatus = "awaiting" => pSites.list[pIdx].coordinates.has
  /\ pStatus = "resolved" =>
       /\ Len(pLog) = Len(pSites.list)
       /\ QueriesSent =
            Cardinality({ i \in 1..Len(pSites.list) : pSites.list[i].coordinates.has })
       /\ \A c \in 1..Len(pResult.connections) :
            \A site \in CulturalSites :
              site.id = pResult.connections[c].siteId => site.coordinates.has

\* a list with a site that has no coordinates and a site that has: the first
\* was skipped, the second was queried and has a connection
C20_Witness ==
  /\ pStatus = "resolved"
  /\ \E i, j \in 1..Len(pLog) :
       /\ ~pSites.list[i].coordinates.has
       /\ pLog[i].kind = "skipped"
       /\ pSites.list[j].coordinates.has
       /\ pLog[j].kind = "ok"
  /\ pResult.connections # <<>>

\* C30: in every result, each connection's parkingId is the id of a lot of
\* parkingLots, each lot of parkingLots has at least one connection, and each
\* connection's siteId is the id of an input site that has coordinates
C30_ConnectionsMatchLots ==
  pStatus = "resolved" =>
    LET lots == pResult.parkingLots
        conns == pResult.connections
    IN /\ \A c \in 1..Len(conns) :
            \E a \in 1..Len(lots) : lots[a].id = conns[c].parkingId
       /\ \A a \in 1..Len(lots) :
            \E c \in 1..Len(conns) : conns[c].parkingId = lots[a].id
       /\ \A c \in 1..Len(conns) :
            \E i \in 1..Len(pSites.list) :
              /\ pSites.list[i].id = conns[c].siteId
              /\ pSites.list[i].coordinates.has

\* a result with one lot that was found near two sites
C30_Witness ==
  /\ pStatus = "resolved"
  /\ op = "nearbyResolved"
  /\ Len(pResult.parkingLots) = 1
  /\ Len(pResult.connections) = 2
  /\ pResult.connections[1].siteId # pResult.connections[2].siteId

(***************************************************************************)
(* Claims about the auth token and useAuth (SpecAuth)                      *)
(***************************************************************************)

\* C11: whenever a response has status 401, the token and the user record are
\* removed from storage, auth:logout is dispatched, and every mounted useAuth
\* instance has isAuthenticated = false and user = null.
C11_UnauthorizedTearsDown ==
  [][ op' = "response401" =>
        /\ token' = Null
        /\ storedUser' = Null
        /\ "auth:logout" \in signals'
        /\ \A i \in authMounted' :
             /\ authState'[i].isAuthenticated = FALSE
             /\ authState'[i].user = Null ]_vars

\* a 401 has just removed a stored token while both components are mounted
C11_Witness ==
  /\ op = "response401"
  /\ authMounted = AuthInstances
  /\ tokenBefore \in Tokens
  /\ token = Null
  /\ storedUser = Null
  /\ "auth:logout" \in signals
  /\ \A i \in AuthInstances : ~authState[i].isAuthenticated

\* C12: each request that is sent carries Authorization: Bearer t exactly when
\* t is the token the storage holds at that moment, and no Authorization
\* header when the storage holds none.
C12_HeaderIsStoredToken ==
  [][ \A r \in authInflight' :
        (\A q \in authInflight : q.id # r.id) =>
          IF token \in Tokens
            THEN r.Authorization = [present |-> TRUE, scheme |-> "Bearer",
                                    token |-> token]
            ELSE ~r.Authorization.present ]_vars

\* a request sent after the token was replaced by a later login carries the
\* new token
C12_Witness ==
  /\ op = "request"
  /\ token \in Tokens
  /\ tokenBefore \in Tokens
  /\ tokenBefore # token
  /\ \E r \in authInflight :
       /\ r.kind = "data"
       /\ r.Authorization.present
       /\ r.Authorization.token = token

\* request r of the state before a step has settled in that step
SettledNow(r) == \A q \in authInflight' : q.id # r.id

\* C21: when the login or register request of a mounted instance fails, that
\* instance stores a non-empty error message, has isLoading false, keeps the
\* isAuthenticated it had, and the error is thrown on to the calling form
C21_FailureKeepsAuthentication ==
  [][ \A r \in authInflight :
        ( /\ SettledNow(r)
          /\ r.kind \in {"login", "register"}
          /\ r.by \in authMounted
          /\ op' \in {"response401", "responseError"} )
        => /\ authState'[r.by].error \notin {Null, ""}
           /\ authState'[r.by].isLoading = FALSE
           /\ authState'[r.by].isAuthenticated = authState[r.by].isAuthenticated
           /\ authThrown' \notin {Null, ""} ]_vars

\* C22: when a logout request settles, with success or with any failure, the
\* token and the user record are gone from storage, the calling instance (if it
\* is still mounted) is in the state {user: null, isAuthenticated: false,
\* isLoading: false, error: null}, and logout throws nothing
C22_LogoutAlwaysClears ==
  [][ \A r \in authInflight :
        (SettledNow(r) /\ r.kind = "logout")
        => /\ token' = NoToken
           /\ storedUser' = Null
           /\ r.by \in authMounted =>
                authState'[r.by] = [user |-> Null, isAuthenticated |-> FALSE,
                                    isLoading |-> FALSE, error |-> Null]
           /\ authThrown' = Null ]_vars

\* a logout whose API call failed without a 401 has just ended: a stored token
\* was removed and the calling Layout instance is logged out
C22_Witness ==
  /\ op = "responseError"
  /\ "storage" \in signals
  /\ tokenBefore \in Tokens
  /\ token = NoToken
  /\ storedUser = Null
  /\ "Layout" \in authMounted
  /\ authState["Layout"] = LoggedOutState
  /\ authThrown = Null

\* C29: a mounted useAuth instance that reports isAuthenticated = true has a
\* token in storage
C29_AuthenticatedHasToken ==
  \A i \in authMounted : authState[i].isAuthenticated => token \in Tokens

(***************************************************************************)
(* Claims about useMapData and useDistrictNames (SpecMapData)              *)
(***************************************************************************)

\* C17: a failed backend request ends as a non-null string in the error field
\* of the hook that made it: in useMapData when the fetch that contained the
\* failed request is over, in useDistrictNames when its request has failed.
C17_FailureBecomesError ==
  [][ /\ \A c \in mdCalls :
           (/\ \A d \in mdCalls' : d.id # c.id
            /\ c.failed \/ op' = "mapBackendFailed")
           => mdError' # Null
      /\ op' = "namesBackendFailed" => dnState'.error # Null ]_vars


(***************************************************************************)
(* Claims about the geoUtils conversions (SpecGeo)                         *)
(***************************************************************************)

\* C23: a (lng, lat) pair converted by mongoLocationToLeaflet and back by
\* leafletToMongoLocation is the original pair, and a (lat, lng) pair converted
\* to a location and back is the original pair
C23_RoundTripIsIdentity ==
  (geoSteps >= 2 /\ geoSteps % 2 = 0) =>
    /\ geoStart = "location" => geoLocation.coordinates = geoOrigin
    /\ geoStart = "leaflet" => geoLeaflet = geoOrigin

\* a location whose longitude and latitude differ has gone to Leaflet form
\* and back
C23_Witness ==
  /\ geoStart = "location"
  /\ geoSteps = 2
  /\ op = "leafletToMongoLocation"
  /\ geoOrigin[1] # geoOrigin[2]
  /\ geoLocation = [type |-> "Point", coordinates |-> geoOrigin]

(***************************************************************************)
(* Claims about SearchBar (SpecBar)                                        *)
(***************************************************************************)

\* C24: after the clear button and until the text is changed again, no
\* autocomplete request is issued: the debounced invocation that was pending
\* at the clear has been cancelled
C24_ClearCancelsPending ==
  [][ barCleared => barInflight' \subseteq barInflight ]_vars

====
